---- MODULE Spec2Model ----
(***************************************************************************)
(* Rotating ownership windows: the allocator of                            *)
(* rotating_windows_protocol.py (class RotatingOwnershipWindows) as a      *)
(* state machine.  The fields of the object are the variables; send,       *)
(* party_can_send and deliver are the actions.  Variables whose names      *)
(* start with h_ are history variables that record what the calls          *)
(* returned (h_sent counts the Messages returned to each party); the       *)
(* allocator never reads them.                                             *)
(***************************************************************************)
EXTENDS Integers, FiniteSets, Sequences, TLC

\* ---- bounds of the model ----
MaxN == 5
MaxM == 3
MaxW == 2
MaxG == 1

\* ---- values of the program ----
None == -1          \* cur_window[pid] is None
Unclaimed == -1     \* claimed_by[b] == -1

VARIABLES n, m, w, g, stride, num_windows, windows,
          next_rr, cur_window, offset, claimed_by, next_unclaimed, used_pads,
          h_last, h_failed, h_last_pad, h_probe, h_sent,
          eager, h_keeper, locking, pc, loc

config == <<n, m, w, g, stride, num_windows, windows>>
alloc == <<next_rr, cur_window, offset, claimed_by, next_unclaimed, used_pads>>
hist == <<h_last, h_failed, h_last_pad, h_probe, h_sent>>
vars == <<n, m, w, g, stride, num_windows, windows,
          next_rr, cur_window, offset, claimed_by, next_unclaimed, used_pads,
          h_last, h_failed, h_last_pad, h_probe, h_sent,
          eager, h_keeper, locking, pc, loc>>

\* what the calls of the sequential allocator leave alone: the eager
\* allocator run beside it (eager), the party that keeps sending
\* (h_keeper), and the position of each party inside a send that runs step
\* by step (locking, pc, loc)
aux == <<eager, h_keeper, locking, pc, loc>>

Parties == 0 .. (m - 1)
WindowIds == 0 .. (num_windows - 1)

\* ---- construction ----

\* the checks of __init__ that raise ValueError
ValidConfig(n0, m0, w0, g0) == n0 > 0 /\ m0 >= 2 /\ w0 > 0 /\ g0 >= 0

\* NumWindowsOf rounding up: a partial last window is counted
NumWindowsCeil(n0, stride0) == (n0 + stride0 - 1) \div stride0

\* self.num_windows = n // self.stride
NumWindowsOf(n0, stride0) == n0 \div stride0

\* WindowsOf laid out with the window length as the period: the gap is lost
WindowsNoGap(n0, w0, stride0) ==
    [b \in 0 .. (NumWindowsOf(n0, stride0) - 1) |->
        [start |-> 1 + b * w0, end |-> (1 + b * w0) + w0 - 1]]

\* the window list: window b is [1 + b*stride, start + w - 1]
WindowsOf(n0, w0, stride0) ==
    [b \in 0 .. (NumWindowsOf(n0, stride0) - 1) |->
        [start |-> 1 + b * stride0, end |-> (1 + b * stride0) + w0 - 1]]

\* the state after RotatingOwnershipWindows(n0, m0, w0, g0)
InitConfig(n0, m0, w0, g0) ==
    /\ ValidConfig(n0, m0, w0, g0)
    /\ n = n0 /\ m = m0 /\ w = w0 /\ g = g0
    /\ stride = w0 + g0
    /\ num_windows = NumWindowsOf(n0, w0 + g0)
    /\ windows = WindowsOf(n0, w0, w0 + g0)
    /\ next_rr = [pid \in 0 .. (m0 - 1) |-> pid]
    /\ cur_window = [pid \in 0 .. (m0 - 1) |-> None]
    /\ offset = [pid \in 0 .. (m0 - 1) |-> 0]
    /\ claimed_by = [b \in 0 .. (NumWindowsOf(n0, w0 + g0) - 1) |-> Unclaimed]
    /\ next_unclaimed = 0
    /\ used_pads = {}
    /\ h_last = [op |-> "init", pid |-> -1, result |-> "none", pad |-> 0]
    /\ h_failed = [pid \in 0 .. (m0 - 1) |-> FALSE]
    /\ h_last_pad = [pid \in 0 .. (m0 - 1) |-> 0]
    /\ h_probe = [pid \in 0 .. (m0 - 1) |-> "none"]
    /\ h_sent = [pid \in 0 .. (m0 - 1) |-> 0]
    /\ eager = [next_rr |-> [pid \in 0 .. (m0 - 1) |-> pid],
                cur_window |-> [pid \in 0 .. (m0 - 1) |-> None],
                offset |-> [pid \in 0 .. (m0 - 1) |-> 0],
                claimed_by |-> [b \in 0 .. (NumWindowsOf(n0, w0 + g0) - 1)
                                   |-> Unclaimed],
                next_unclaimed |-> 0,
                used_pads |-> {},
                out |-> [op |-> "init", pid |-> -1, result |-> "none", pad |-> 0]]
    /\ pc = [pid \in 0 .. (m0 - 1) |-> "idle"]
    /\ loc = [pid \in 0 .. (m0 - 1) |-> None]

\* sequential use: every send runs as one unit and no party is singled out
Sequential == h_keeper = 0 /\ locking = TRUE

Init ==
    \E n0 \in 1 .. MaxN, m0 \in 2 .. MaxM, w0 \in 1 .. MaxW, g0 \in 0 .. MaxG :
        InitConfig(n0, m0, w0, g0) /\ Sequential

\* ---- the allocator ----

\* _advance_next_unclaimed as a do-while loop: the window at nu is passed
\* before the first test
AdvanceDoWhile(nu) ==
    IF nu >= num_windows
    THEN nu
    ELSE LET stop == {k \in (nu + 1) .. num_windows :
                         k = num_windows \/ claimed_by[k] = Unclaimed}
         IN  CHOOSE k \in stop : \A k2 \in stop : k <= k2

\* _advance_next_unclaimed without its loop: claimed windows are not skipped
AdvanceNoSkip(nu) == nu

\* _advance_next_unclaimed without the test of the claim table: the loop
\* runs to the end of the table
AdvanceToEnd(nu) == IF nu < num_windows THEN num_windows ELSE nu

\* _advance_next_unclaimed: the value of next_unclaimed after the loop
\* started at nu, with the claim table as it stands
RECURSIVE _advance_next_unclaimed(_)
_advance_next_unclaimed(nu) ==
    IF nu < num_windows /\ claimed_by[nu] # Unclaimed
    THEN _advance_next_unclaimed(nu + 1)
    ELSE nu

\* PreferredFree with the test of the claim table inverted
PreferredTaken(rr) == rr < num_windows /\ claimed_by[rr] # Unclaimed

\* PreferredFree without the test of the claim table
PreferredInRange(rr) == rr < num_windows

\* the test of _claim_window on the preferred window rr
PreferredFree(rr) == rr < num_windows /\ claimed_by[rr] = Unclaimed

\* _claim_window(pid): the value returned (ret) and the fields it leaves
_claim_window(pid) ==
    LET rr == next_rr[pid] IN
    IF PreferredFree(rr)
    THEN [ret |-> rr,
          claimed_by |-> [claimed_by EXCEPT ![rr] = pid],
          cur_window |-> [cur_window EXCEPT ![pid] = rr],
          offset |-> [offset EXCEPT ![pid] = 0],
          next_rr |-> [next_rr EXCEPT ![pid] = @ + m],
          next_unclaimed |-> next_unclaimed]
    ELSE
        LET rr2 == IF rr < num_windows
                   THEN [next_rr EXCEPT ![pid] = @ + m]
                   ELSE next_rr
            nu == _advance_next_unclaimed(next_unclaimed)
        IN  IF nu >= num_windows
            THEN [ret |-> None,
                  claimed_by |-> claimed_by,
                  cur_window |-> cur_window,
                  offset |-> offset,
                  next_rr |-> rr2,
                  next_unclaimed |-> nu]
            ELSE [ret |-> nu,
                  claimed_by |-> [claimed_by EXCEPT ![nu] = pid],
                  cur_window |-> [cur_window EXCEPT ![pid] = nu],
                  offset |-> [offset EXCEPT ![pid] = 0],
                  next_rr |-> rr2,
                  next_unclaimed |-> nu + 1]

\* ScanUnclaimed without its loop: the pointer is used as it stands
ScanNoSkip(tmp) == tmp

\* the scan of party_can_send over its local copy tmp of next_unclaimed
RECURSIVE ScanUnclaimed(_)
ScanUnclaimed(tmp) ==
    IF tmp < num_windows /\ claimed_by[tmp] # Unclaimed
    THEN ScanUnclaimed(tmp + 1)
    ELSE tmp

\* party_can_send without the test of the window the party holds
CanSendWithoutHeld(pid) ==
    LET rr == next_rr[pid]
    IN  IF rr < num_windows /\ claimed_by[rr] = Unclaimed
        THEN TRUE
        ELSE ScanUnclaimed(next_unclaimed) < num_windows

\* party_can_send taking a preferred window in range for claimable
CanSendIgnoresClaim(pid) ==
    LET b == cur_window[pid]
        rr == next_rr[pid]
    IN  IF b # None /\ offset[pid] < w
        THEN TRUE
        ELSE IF rr < num_windows
             THEN TRUE
             ELSE ScanUnclaimed(next_unclaimed) < num_windows

\* party_can_send(pid): the value returned
party_can_send(pid) ==
    LET b == cur_window[pid]
        rr == next_rr[pid]
    IN  IF b # None /\ offset[pid] < w
        THEN TRUE
        ELSE IF rr < num_windows /\ claimed_by[rr] = Unclaimed
             THEN TRUE
             ELSE ScanUnclaimed(next_unclaimed) < num_windows

\* _current_pad_index one too far: offsets counted from 1
PadIndexFromOne(b, off) == windows[b].start + off + 1

\* _current_pad_index counting down from the end of the window
PadIndexDescending(b, off) == windows[b].end - off

\* _current_pad_index for a party whose cur_window is b (not None) and
\* whose offset is off
_current_pad_index(b, off) == windows[b].start + off

\* wasted_pads counted against the capacity instead of n
WastedOfCapacity == (num_windows * w) - Cardinality(used_pads)

pads_used == Cardinality(used_pads)

wasted_pads == n - pads_used

protocol_capacity_in_messages == num_windows * w

\* ---- history of the calls ----

\* how the record of the last probe of party p moves when party q makes a
\* call (op is "send", "canSend" or "deliver", res its outcome):
\*   "true"          party_can_send(p) returned true and no send succeeded since
\*   "stale"         then exactly one send succeeded, by another party
\*   "kept"          and the send(p) right after that succeeded
\*   "invalidated"   and the send(p) right after that failed
\*   "contradicted"  send(p) failed with no successful send since the probe
ProbeNext(p, q, op, res) ==
    IF op = "canSend" /\ q = p
    THEN (IF res = "true" THEN "true" ELSE "none")
    ELSE IF h_probe[p] = "true"
    THEN (IF op = "send" /\ q = p
          THEN (IF res = "ok" THEN "none" ELSE "contradicted")
          ELSE IF op = "send" /\ res = "ok" THEN "stale" ELSE "true")
    ELSE IF h_probe[p] = "stale"
    THEN (IF op = "send" /\ q = p
          THEN (IF res = "ok" THEN "kept" ELSE "invalidated")
          ELSE "none")
    ELSE "none"

Record(q, op, res, pad) ==
    /\ h_last' = [op |-> op, pid |-> q, result |-> res, pad |-> pad]
    /\ h_failed' = IF op = "send" /\ res = "NoCapacity"
                   THEN [h_failed EXCEPT ![q] = TRUE]
                   ELSE h_failed
    /\ h_last_pad' = IF op = "send" /\ res = "ok"
                     THEN [h_last_pad EXCEPT ![q] = pad]
                     ELSE h_last_pad
    /\ h_probe' = [p \in Parties |-> ProbeNext(p, q, op, res)]
    /\ h_sent' = IF op = "send" /\ res = "ok"
                  THEN [h_sent EXCEPT ![q] = @ + 1]
                  ELSE h_sent

\* ---- the operations ----

\* send(pid, payload); the payload is opaque and left out
Send(pid) ==
    LET needClaim == cur_window[pid] = None \/ offset[pid] >= w
        c == IF needClaim
             THEN _claim_window(pid)
             ELSE [ret |-> cur_window[pid],
                   claimed_by |-> claimed_by,
                   cur_window |-> cur_window,
                   offset |-> offset,
                   next_rr |-> next_rr,
                   next_unclaimed |-> next_unclaimed]
    IN
    /\ next_rr' = c.next_rr
    /\ claimed_by' = c.claimed_by
    /\ next_unclaimed' = c.next_unclaimed
    /\ UNCHANGED config
    /\ IF needClaim /\ c.ret = None
       THEN \* raise RuntimeError("... no windows left to claim")
            /\ cur_window' = c.cur_window
            /\ offset' = c.offset
            /\ UNCHANGED used_pads
            /\ Record(pid, "send", "NoCapacity", 0)
       ELSE IF c.cur_window[pid] = None
       THEN \* _current_pad_index raises RuntimeError("Party has no current window")
            /\ cur_window' = c.cur_window
            /\ offset' = c.offset
            /\ UNCHANGED used_pads
            /\ Record(pid, "send", "NoCurrentWindow", 0)
       ELSE LET pad_index == _current_pad_index(c.cur_window[pid], c.offset[pid]) IN
            IF pad_index \in used_pads
            THEN \* raise RuntimeError("Pad reuse detected")
                 /\ cur_window' = c.cur_window
                 /\ offset' = c.offset
                 /\ UNCHANGED used_pads
                 /\ Record(pid, "send", "UniquenessViolation", pad_index)
            ELSE /\ used_pads' = used_pads \cup {pad_index}
                 /\ offset' = [c.offset EXCEPT ![pid] = @ + 1]
                 /\ cur_window' = IF c.offset[pid] + 1 >= w
                                  THEN [c.cur_window EXCEPT ![pid] = None]
                                  ELSE c.cur_window
                 /\ Record(pid, "send", "ok", pad_index)

\* party_can_send running its scan on self.next_unclaimed instead of tmp
CanSendAdvancesPointer(pid) ==
    /\ UNCHANGED config
    /\ UNCHANGED <<next_rr, cur_window, offset, claimed_by, used_pads>>
    /\ next_unclaimed' = IF (cur_window[pid] # None /\ offset[pid] < w)
                             \/ (next_rr[pid] < num_windows
                                 /\ claimed_by[next_rr[pid]] = Unclaimed)
                          THEN next_unclaimed
                          ELSE ScanUnclaimed(next_unclaimed)
    /\ Record(pid, "canSend", IF party_can_send(pid) THEN "true" ELSE "false", 0)

\* party_can_send(pid) as a call: it returns and writes no field
CanSend(pid) ==
    /\ UNCHANGED config
    /\ UNCHANGED alloc
    /\ Record(pid, "canSend", IF party_can_send(pid) THEN "true" ELSE "false", 0)

\* deliver(msg) for a message send has returned
Deliver(pad) ==
    /\ pad \in used_pads
    /\ UNCHANGED config
    /\ UNCHANGED alloc
    /\ Record(-1, "deliver", "none", 0)

Next ==
    \/ \E pid \in Parties : Send(pid) /\ UNCHANGED aux
    \/ \E pid \in Parties : CanSend(pid) /\ UNCHANGED aux
    \/ \E pad \in used_pads : Deliver(pad) /\ UNCHANGED aux

Spec == Init /\ [][Next]_vars

\* ---- the scenario n=20, m=2, w=4, g=1 with 8 sends of each party ----

Init20 == InitConfig(20, 2, 4, 1) /\ Sequential

\* a send of a party that has made fewer than 8 calls of send
Send20(pid) == h_sent[pid] < 8 /\ ~h_failed[pid] /\ Send(pid)

Next20 ==
    \/ \E pid \in Parties : Send20(pid) /\ UNCHANGED aux
    \/ \E pid \in Parties : CanSend(pid) /\ UNCHANGED aux
    \/ \E pad \in used_pads : Deliver(pad) /\ UNCHANGED aux

Spec20 == Init20 /\ [][Next20]_vars

\* ---- the scenario n=9, m=3, w=4, g=0 ----

Init9 == InitConfig(9, 3, 4, 0) /\ Sequential

Spec9 == Init9 /\ [][Next]_vars

\* ---- an allocator that keeps next_unclaimed normalized ----
\* The same allocator with one change: after every call next_unclaimed is
\* moved past every claimed window.  Its state is the record eager, its
\* output the field out.

\* the pointer nu moved past the claimed windows of the table cb
RECURSIVE E_Normalize(_, _)
E_Normalize(cb, nu) ==
    IF nu < num_windows /\ cb[nu] # Unclaimed
    THEN E_Normalize(cb, nu + 1)
    ELSE nu

\* _claim_window on the state e
E_claim_window(e, pid) ==
    LET rr == e.next_rr[pid] IN
    IF rr < num_windows /\ e.claimed_by[rr] = Unclaimed
    THEN [ret |-> rr,
          st |-> [e EXCEPT !.claimed_by[rr] = pid,
                           !.cur_window[pid] = rr,
                           !.offset[pid] = 0,
                           !.next_rr[pid] = @ + m]]
    ELSE
        LET e2 == IF rr < num_windows
                  THEN [e EXCEPT !.next_rr[pid] = @ + m]
                  ELSE e
            nu == E_Normalize(e.claimed_by, e.next_unclaimed)
        IN  IF nu >= num_windows
            THEN [ret |-> None, st |-> [e2 EXCEPT !.next_unclaimed = nu]]
            ELSE [ret |-> nu,
                  st |-> [e2 EXCEPT !.claimed_by[nu] = pid,
                                    !.cur_window[pid] = nu,
                                    !.offset[pid] = 0,
                                    !.next_unclaimed = nu + 1]]

\* party_can_send on the state e
E_party_can_send(e, pid) ==
    \/ e.cur_window[pid] # None /\ e.offset[pid] < w
    \/ e.next_rr[pid] < num_windows /\ e.claimed_by[e.next_rr[pid]] = Unclaimed
    \/ E_Normalize(e.claimed_by, e.next_unclaimed) < num_windows

\* the state e with its output set and its pointer normalized
E_Return(e, pid, op, res, pad) ==
    [e EXCEPT !.out = [op |-> op, pid |-> pid, result |-> res, pad |-> pad],
              !.next_unclaimed = E_Normalize(e.claimed_by, e.next_unclaimed)]

\* send on the state e: the state it leaves
E_send(e, pid) ==
    LET needClaim == e.cur_window[pid] = None \/ e.offset[pid] >= w
        c == IF needClaim THEN E_claim_window(e, pid)
                          ELSE [ret |-> e.cur_window[pid], st |-> e]
        e1 == c.st
    IN  IF needClaim /\ c.ret = None
        THEN E_Return(e1, pid, "send", "NoCapacity", 0)
        ELSE LET pad_index == windows[e1.cur_window[pid]].start + e1.offset[pid]
             IN  IF pad_index \in e1.used_pads
                 THEN E_Return(e1, pid, "send", "UniquenessViolation", pad_index)
                 ELSE E_Return(
                          [e1 EXCEPT !.used_pads = @ \cup {pad_index},
                                     !.offset[pid] = @ + 1,
                                     !.cur_window[pid] =
                                         IF e1.offset[pid] + 1 >= w
                                         THEN None ELSE @],
                          pid, "send", "ok", pad_index)

\* the same call made on both allocators
BothSend(pid) ==
    /\ Send(pid)
    /\ eager' = E_send(eager, pid)
    /\ UNCHANGED <<h_keeper, locking, pc, loc>>

BothCanSend(pid) ==
    /\ CanSend(pid)
    /\ eager' = E_Return(eager, pid, "canSend",
                         IF E_party_can_send(eager, pid) THEN "true" ELSE "false",
                         0)
    /\ UNCHANGED <<h_keeper, locking, pc, loc>>

NextEager ==
    \/ \E pid \in Parties : BothSend(pid)
    \/ \E pid \in Parties : BothCanSend(pid)

SpecEager == Init /\ [][NextEager]_vars

\* ---- send called by concurrent parties, step by step ----
\* A send of pid runs in three steps: RStart reads (the test of send, the
\* test of the preferred window, the scan of the reclaim pointer), RTake
\* writes the claim, REmit issues the index.  pc[pid] is the position of
\* pid and loc[pid] the window index it has read.  With locking the whole
\* send holds one lock over the allocator; without it the steps of
\* different parties interleave.

\* pid may enter send: under the lock no other party is inside a send
MayStart(pid) ==
    /\ pc[pid] = "idle"
    /\ locking => \A q \in Parties : pc[q] = "idle"

\* the reads of send and _claim_window, up to the choice of a window
RStart(pid) ==
    LET rr == next_rr[pid]
        nu == _advance_next_unclaimed(next_unclaimed)
    IN
    /\ MayStart(pid)
    /\ UNCHANGED <<config, eager, h_keeper, locking>>
    /\ UNCHANGED <<cur_window, offset, claimed_by, used_pads>>
    /\ IF ~(cur_window[pid] = None \/ offset[pid] >= w)
       THEN /\ pc' = [pc EXCEPT ![pid] = "emit"]
            /\ UNCHANGED <<loc, next_rr, next_unclaimed, hist>>
       ELSE IF PreferredFree(rr)
       THEN /\ pc' = [pc EXCEPT ![pid] = "take_rr"]
            /\ loc' = [loc EXCEPT ![pid] = rr]
            /\ UNCHANGED <<next_rr, next_unclaimed, hist>>
       ELSE /\ next_rr' = IF rr < num_windows
                          THEN [next_rr EXCEPT ![pid] = @ + m]
                          ELSE next_rr
            /\ next_unclaimed' = nu
            /\ IF nu >= num_windows
               THEN \* raise RuntimeError("... no windows left to claim")
                    /\ UNCHANGED <<pc, loc>>
                    /\ Record(pid, "send", "NoCapacity", 0)
               ELSE /\ pc' = [pc EXCEPT ![pid] = "take_nu"]
                    /\ loc' = [loc EXCEPT ![pid] = nu]
                    /\ UNCHANGED hist

\* the writes of _claim_window for the window read by RStart
RTake(pid) ==
    /\ pc[pid] \in {"take_rr", "take_nu"}
    /\ UNCHANGED <<config, eager, h_keeper, locking>>
    /\ UNCHANGED <<used_pads, hist>>
    /\ claimed_by' = [claimed_by EXCEPT ![loc[pid]] = pid]
    /\ cur_window' = [cur_window EXCEPT ![pid] = loc[pid]]
    /\ offset' = [offset EXCEPT ![pid] = 0]
    /\ IF pc[pid] = "take_rr"
       THEN /\ next_rr' = [next_rr EXCEPT ![pid] = @ + m]
            /\ UNCHANGED next_unclaimed
       ELSE /\ next_unclaimed' = next_unclaimed + 1
            /\ UNCHANGED next_rr
    /\ pc' = [pc EXCEPT ![pid] = "emit"]
    /\ loc' = [loc EXCEPT ![pid] = None]

\* the rest of send: the index, the pad-reuse check, the ledger, the offset
REmit(pid) ==
    /\ pc[pid] = "emit"
    /\ UNCHANGED <<config, eager, h_keeper, locking>>
    /\ UNCHANGED <<next_rr, claimed_by, next_unclaimed, loc>>
    /\ pc' = [pc EXCEPT ![pid] = "idle"]
    /\ LET pad_index == _current_pad_index(cur_window[pid], offset[pid]) IN
       IF pad_index \in used_pads
       THEN \* raise RuntimeError("Pad reuse detected")
            /\ UNCHANGED <<cur_window, offset, used_pads>>
            /\ Record(pid, "send", "UniquenessViolation", pad_index)
       ELSE /\ used_pads' = used_pads \cup {pad_index}
            /\ offset' = [offset EXCEPT ![pid] = @ + 1]
            /\ cur_window' = IF offset[pid] + 1 >= w
                             THEN [cur_window EXCEPT ![pid] = None]
                             ELSE cur_window
            /\ Record(pid, "send", "ok", pad_index)

\* two parties, with or without the lock
InitRace ==
    \E n0 \in 1 .. MaxN, w0 \in 1 .. MaxW, g0 \in 0 .. MaxG, lk \in BOOLEAN :
        InitConfig(n0, 2, w0, g0) /\ h_keeper = 0 /\ locking = lk

NextRace ==
    \/ \E pid \in Parties : RStart(pid)
    \/ \E pid \in Parties : RTake(pid)
    \/ \E pid \in Parties : REmit(pid)

SpecRace == InitRace /\ [][NextRace]_vars

\* ---- a run in which one party keeps sending ----
\* The party h_keeper is the one active party of a run of the driver, which
\* calls send for it again and again; the other parties send when they like
\* or never.

InitKeep ==
    \E n0 \in 1 .. MaxN, m0 \in 2 .. MaxM, w0 \in 1 .. MaxW, g0 \in 0 .. MaxG :
        \E k \in 0 .. (m0 - 1) :
            InitConfig(n0, m0, w0, g0) /\ h_keeper = k /\ locking = TRUE

KeeperSend == Send(h_keeper) /\ UNCHANGED aux

OtherSend == \E pid \in Parties \ {h_keeper} : Send(pid) /\ UNCHANGED aux

NextKeep == KeeperSend \/ OtherSend

SpecKeep == InitKeep /\ [][NextKeep]_vars /\ WF_vars(KeeperSend)

\* ---- what the claims speak of ----

\* pid holds a current window with offsets left
Holds(pid) == cur_window[pid] # None /\ offset[pid] < w

AllClaimed == \A b \in WindowIds : claimed_by[b] # Unclaimed

\* index i lies in the range of window b
InWindow(i, b) == windows[b].start <= i /\ i <= windows[b].end

\* the windows whose range holds index i
WindowsAt(i) == {b \in WindowIds : InWindow(i, b)}

\* the number of Messages returned to the parties of S
RECURSIVE TotalSent(_)
TotalSent(S) ==
    IF S = {} THEN 0
    ELSE LET pid == CHOOSE x \in S : TRUE
         IN  h_sent[pid] + TotalSent(S \ {pid})

\* the step is a send that returned a Message
SendOk == h_last'.op = "send" /\ h_last'.result = "ok"

\* ---- C1 ----
\* C1: global uniqueness.  In every reachable state the pad-reuse check of
\* send has not been triggered: no call of send has found its pad_index
\* already in used_pads, so no pad_index has been returned twice.
C1_GlobalUniqueness == h_last.result # "UniquenessViolation"

\* every window has been claimed and consumed, by at least two parties, one
\* of them through the reclaim path (a window outside its residue class)
C1_Witness ==
    /\ num_windows >= 3
    /\ pads_used = protocol_capacity_in_messages
    /\ \E b1, b2 \in WindowIds :
          /\ claimed_by[b1] # claimed_by[b2]
          /\ claimed_by[b1] # Unclaimed
          /\ claimed_by[b2] # Unclaimed
          /\ b1 % m # claimed_by[b1]

\* ---- C2 ----
\* C2: ownership stability.  In every step a window that is claimed keeps
\* its owner, and a send that returns a pad_index inside the range of a
\* window that was already claimed is a send by that window's owner.
C2_OwnershipStability ==
    [][ /\ \A b \in WindowIds :
              claimed_by[b] # Unclaimed => claimed_by'[b] = claimed_by[b]
        /\ SendOk =>
              \A b \in WindowIds :
                  (claimed_by[b] # Unclaimed /\ InWindow(h_last'.pad, b))
                      => h_last'.pid = claimed_by[b] ]_vars

\* a send has returned the second index of a window its sender claimed
\* earlier, after another party's send
C2_Witness ==
    /\ h_last.op = "send" /\ h_last.result = "ok"
    /\ h_probe[h_last.pid] = "kept"
    /\ \E b \in WindowIds :
          /\ h_last.pad = windows[b].start + 1
          /\ claimed_by[b] = h_last.pid

\* ---- C3 ----
\* C3: exhaustion is permanent.  In every reachable state, for a party
\* whose send has failed with NoCapacity at any earlier time,
\* party_can_send returns false.
C3_ExhaustionPermanent ==
    \A pid \in Parties : h_failed[pid] => ~party_can_send(pid)

\* a party's send has failed and a later send of another party succeeded
C3_Witness ==
    \E p \in Parties :
        /\ h_failed[p]
        /\ h_last.op = "send" /\ h_last.result = "ok" /\ h_last.pid # p

\* ---- C4 ----
\* C4: a send by pid fails with NoCapacity exactly when, at the moment of
\* the call, every window is claimed and pid holds no current window with
\* remaining offsets.
C4_NoCapacityIff ==
    [][ \A pid \in Parties :
            (h_last'.op = "send" /\ h_last'.pid = pid)
                => ((h_last'.result = "NoCapacity")
                        <=> (AllClaimed /\ ~Holds(pid))) ]_vars

\* a send has failed for a party that had earlier obtained a window of
\* another party's residue class through the reclaim path
C4_Witness ==
    /\ h_last.op = "send" /\ h_last.result = "NoCapacity"
    /\ \E b \in WindowIds :
          claimed_by[b] = h_last.pid /\ b % m # h_last.pid

\* ---- C5 ----
\* C5: monotonic per-party consumption.  When a send by pid returns an
\* index in the same window as the index pid's previous successful send
\* returned, it is that index plus 1; otherwise it is the start of a window.
C5_MonotonicConsumption ==
    [][ SendOk =>
          LET pid == h_last'.pid
              pad == h_last'.pad
              before == h_last_pad[pid]
          IN  IF before # 0 /\ WindowsAt(before) = WindowsAt(pad)
              THEN pad = before + 1
              ELSE \E b \in WindowIds : pad = windows[b].start ]_vars

\* a party has received the second index of its window, and between its
\* two sends another party's send succeeded
C5_Witness ==
    /\ h_last.op = "send" /\ h_last.result = "ok"
    /\ h_probe[h_last.pid] = "kept"
    /\ \E b \in WindowIds : h_last.pad = windows[b].start + 1
    /\ \E q \in Parties : q # h_last.pid /\ h_last_pad[q] # 0 /\ Holds(q)

\* ---- C6 ----
\* C6: in every reachable state pads_used() + wasted_pads() = n.
C6_UsedPlusWasted == pads_used + wasted_pads = n

\* indices have been issued, a send has failed, and gaps or a tail exist
C6_Witness ==
    /\ pads_used > 0
    /\ protocol_capacity_in_messages < n
    /\ \E p \in Parties : h_failed[p]

\* ---- C7 ----
\* C7: in every reachable state protocol_capacity_in_messages() is
\* (n // (w+g)) * w.
C7_Capacity == protocol_capacity_in_messages = (n \div (w + g)) * w

\* sends, a probe and a deliver have run on a layout with a gap and a tail
C7_Witness ==
    /\ g > 0 /\ n % (w + g) # 0 /\ num_windows >= 2
    /\ pads_used = protocol_capacity_in_messages
    /\ h_last.op = "deliver"

\* ---- C8 ----
\* C8: party_can_send is read-only.  Every step that is a call of
\* party_can_send leaves next_rr, cur_window, offset, claimed_by,
\* next_unclaimed and used_pads unchanged.
C8_CanSendReadOnly ==
    [][ h_last'.op = "canSend" =>
          UNCHANGED <<next_rr, cur_window, offset, claimed_by,
                      next_unclaimed, used_pads>> ]_vars

\* party_can_send has returned true from its scan, which had to step over
\* a claimed window that next_unclaimed still points to
C8_Witness ==
    /\ h_last.op = "canSend" /\ h_last.result = "true"
    /\ ~Holds(h_last.pid)
    /\ ~PreferredFree(next_rr[h_last.pid])
    /\ next_unclaimed < num_windows
    /\ claimed_by[next_unclaimed] # Unclaimed

\* ---- C9 ----
\* C9: party_can_send is advisory only across parties.  A true answer to
\* party p is never followed by a failing send(p) unless a send of another
\* party succeeded in between; the state in which one such send did
\* invalidate the answer is reachable (C9_Witness).
C9_StaleOnlyAcrossParties ==
    \A p \in Parties : h_probe[p] # "contradicted"

\* party_can_send(p) returned true, one send of another party succeeded,
\* and the send(p) right after it failed with NoCapacity
C9_Witness ==
    \E p \in Parties :
        /\ h_probe[p] = "invalidated"
        /\ h_last.op = "send" /\ h_last.pid = p /\ h_last.result = "NoCapacity"

\* ---- C10 ----
\* C10: in every reachable state no two parties have the same window as
\* cur_window, and the window a party has as cur_window is claimed by it.
C10_CurWindowExclusive ==
    /\ \A p, q \in Parties :
          (p # q /\ cur_window[p] # None) => cur_window[p] # cur_window[q]
    /\ \A p \in Parties :
          cur_window[p] # None => claimed_by[cur_window[p]] = p

\* two parties hold windows at once, one of them outside its residue class
C10_Witness ==
    \E p, q \in Parties :
        /\ p # q
        /\ cur_window[p] # None /\ cur_window[q] # None
        /\ cur_window[p] % m # p

\* ---- C11 ----
\* C11: in the scenario n=20, w=4, g=1, m=2 the windows are [1-4], [6-9],
\* [11-14], [16-19]; whatever the interleaving, the k-th send of party 0
\* returns the k-th of 1,2,3,4,11,12,13,14 and the k-th send of party 1 the
\* k-th of 6,7,8,9,16,17,18,19, no send fails, every claimed window is of
\* its owner's residue class, the capacity is 16, and when both parties have
\* made their 8 sends pads_used is 16, wasted_pads is 4 and the indices
\* never issued are 5, 10, 15, 20.
C11_Scenario20 ==
    LET recv == << <<1, 2, 3, 4, 11, 12, 13, 14>>,
                   <<6, 7, 8, 9, 16, 17, 18, 19>> >>
    IN
    /\ windows = [b \in 0 .. 3 |->
                     [start |-> 1 + 5 * b, end |-> 4 + 5 * b]]
    /\ protocol_capacity_in_messages = 16
    /\ \A pid \in Parties :
          /\ ~h_failed[pid]
          /\ h_sent[pid] <= 8
          /\ h_sent[pid] > 0 => h_last_pad[pid] = recv[pid + 1][h_sent[pid]]
    /\ \A b \in WindowIds : claimed_by[b] \in {Unclaimed, b % 2}
    /\ used_pads \cap {5, 10, 15, 20} = {}
    /\ (h_sent[0] = 8 /\ h_sent[1] = 8) =>
          /\ pads_used = 16
          /\ wasted_pads = 4
          /\ (1 .. 20) \ used_pads = {5, 10, 15, 20}

\* both parties have made their 8 sends, the last of them interleaved
C11_Witness ==
    /\ n = 20 /\ m = 2 /\ w = 4 /\ g = 1
    /\ h_sent[0] = 8 /\ h_sent[1] = 8
    /\ h_last.op = "send" /\ h_last.result = "ok"
    /\ h_probe[h_last.pid] = "kept"

\* ---- C12 ----
\* C12: in the scenario n=9, w=4, g=0, m=3 there are 2 windows and the
\* preferred index of party 2 is out of range in every state, so every step
\* that claims a window for party 2 goes through the reclaim path (it takes
\* the lowest unclaimed window, moves next_unclaimed past it and leaves
\* next_rr[2] alone); and a first send of party 2 made when party 0 has
\* claimed window 0 and party 1 window 1 fails with NoCapacity.
C12_Scenario9 ==
    /\ [](num_windows = 2 /\ next_rr[2] >= num_windows)
    /\ [][ /\ \A b \in WindowIds :
                 (claimed_by[b] = Unclaimed /\ claimed_by'[b] = 2) =>
                     /\ next_rr[2] >= num_windows
                     /\ next_rr'[2] = next_rr[2]
                     /\ next_unclaimed' = b + 1
                     /\ \A b2 \in 0 .. (b - 1) : claimed_by[b2] # Unclaimed
           /\ ( /\ h_last'.op = "send" /\ h_last'.pid = 2
                /\ h_sent[2] = 0
                /\ claimed_by[0] = 0 /\ claimed_by[1] = 1 )
                 => h_last'.result = "NoCapacity" ]_vars

\* parties 0 and 1 have claimed their own windows and the first send of
\* party 2 has failed
C12_Witness ==
    /\ n = 9 /\ m = 3 /\ w = 4 /\ g = 0
    /\ claimed_by[0] = 0 /\ claimed_by[1] = 1
    /\ h_sent[2] = 0 /\ h_failed[2]
    /\ h_last.op = "send" /\ h_last.pid = 2 /\ h_last.result = "NoCapacity"

\* ---- C13 ----
\* C13: the round-robin cursor moves on every claim attempt.  In every step
\* next_rr[pid] grows by exactly m when the step is a send of pid made while
\* pid holds no window with remaining offsets (whether its preferred window
\* is free, claimed or out of range, and whether or not a window is
\* obtained), and is unchanged in every other step.
C13_RRAdvancesOnEveryAttempt ==
    [][ \A pid \in Parties :
            next_rr'[pid] =
                IF /\ h_last'.op = "send" /\ h_last'.pid = pid
                   /\ (cur_window[pid] = None \/ offset[pid] >= w)
                THEN next_rr[pid] + m
                ELSE next_rr[pid] ]_vars

\* ---- C14 ----
\* C14: claim policy order.  A send of pid made while pid holds no window
\* with remaining offsets and its preferred window rr = next_rr[pid] is in
\* range and unclaimed takes exactly window rr: it returns the first index
\* of rr (offset 0), leaves pid at offset 1 of rr, writes only entry rr of
\* the claim table and leaves next_unclaimed unchanged.  next_unclaimed
\* changes only in a claiming send whose preferred window is out of range or
\* already claimed.
C14_PreferredFirst ==
    [][ /\ \A pid \in Parties :
              LET rr == next_rr[pid] IN
              ( /\ h_last'.op = "send" /\ h_last'.pid = pid
                /\ (cur_window[pid] = None \/ offset[pid] >= w)
                /\ rr < num_windows /\ claimed_by[rr] = Unclaimed )
              => /\ h_last'.result = "ok"
                 /\ h_last'.pad = windows[rr].start
                 /\ claimed_by' = [claimed_by EXCEPT ![rr] = pid]
                 /\ next_unclaimed' = next_unclaimed
                 /\ offset'[pid] = 1
                 /\ cur_window'[pid] = IF w > 1 THEN rr ELSE None
        /\ next_unclaimed' # next_unclaimed =>
              /\ h_last'.op = "send"
              /\ LET pid == h_last'.pid
                     rr == next_rr[pid]
                 IN  /\ (cur_window[pid] = None \/ offset[pid] >= w)
                     /\ (rr >= num_windows \/ claimed_by[rr] # Unclaimed) ]_vars

\* a send has claimed its sender's preferred window while a window of lower
\* index was, and still is, unclaimed
C14_Witness ==
    /\ h_last.op = "send" /\ h_last.result = "ok"
    /\ \E b \in WindowIds :
          /\ h_last.pad = windows[b].start
          /\ claimed_by[b] = h_last.pid
          /\ b % m = h_last.pid
          /\ next_unclaimed < b
          /\ \E b2 \in 0 .. (b - 1) : claimed_by[b2] = Unclaimed

\* ---- C15 ----
\* C15: reclaim takes the lowest unclaimed window.  In every reachable state
\* next_unclaimed is at most num_windows and every window below it is
\* claimed; no step decreases next_unclaimed; and a claiming send that falls
\* through to the reclaim path claims a window b at or above next_unclaimed
\* with every window below b claimed, and leaves next_unclaimed at b + 1, so
\* the windows obtained by reclaim have strictly increasing indices.
C15_ReclaimLowest ==
    /\ [](/\ 0 <= next_unclaimed /\ next_unclaimed <= num_windows
          /\ \A b \in WindowIds :
                b < next_unclaimed => claimed_by[b] # Unclaimed)
    /\ [][ /\ next_unclaimed' >= next_unclaimed
           /\ \A pid \in Parties :
                 LET rr == next_rr[pid] IN
                 ( /\ h_last'.op = "send" /\ h_last'.pid = pid
                   /\ h_last'.result = "ok"
                   /\ (cur_window[pid] = None \/ offset[pid] >= w)
                   /\ (rr >= num_windows \/ claimed_by[rr] # Unclaimed) )
                 => \E b \in WindowIds :
                       /\ claimed_by[b] = Unclaimed
                       /\ claimed_by' = [claimed_by EXCEPT ![b] = pid]
                       /\ \A b2 \in 0 .. (b - 1) : claimed_by[b2] # Unclaimed
                       /\ b >= next_unclaimed
                       /\ next_unclaimed' = b + 1
                       /\ h_last'.pad = windows[b].start ]_vars

\* a send has reclaimed a window outside its sender's residue class after
\* the pointer stepped over a window another party had claimed as its
\* preferred one
C15_Witness ==
    /\ h_last.op = "send" /\ h_last.result = "ok"
    /\ \E b \in WindowIds :
          /\ h_last.pad = windows[b].start
          /\ claimed_by[b] = h_last.pid
          /\ b % m # h_last.pid
          /\ next_unclaimed = b + 1
          /\ \E b2 \in 0 .. (b - 1) :
                claimed_by[b2] # h_last.pid /\ b2 % m = claimed_by[b2]

\* ---- C19 ----
\* C19: under sequential use party_can_send is exact for the same party.
\* For every send of pid, the value party_can_send(pid) has in the state the
\* send is made in is true exactly when the send returns a Message, and
\* false exactly when it fails with NoCapacity.
C19_CanSendExact ==
    [][ \A pid \in Parties :
            (h_last'.op = "send" /\ h_last'.pid = pid) =>
                /\ party_can_send(pid) <=> h_last'.result = "ok"
                /\ ~party_can_send(pid) <=> h_last'.result = "NoCapacity" ]_vars

\* party_can_send(p) answered true, and the send(p) that followed (after one
\* send of another party) reclaimed a window behind a lagging pointer
C19_Witness ==
    /\ h_last.op = "send" /\ h_last.result = "ok"
    /\ h_probe[h_last.pid] = "kept"
    /\ \E b \in WindowIds :
          /\ h_last.pad = windows[b].start
          /\ b % m # h_last.pid
          /\ b >= 2

\* ---- C20 ----
\* C20: a party never abandons a partly consumed window.  In every
\* reachable state a party with a current window has an offset strictly
\* between 0 and w; the issued indices are exactly all w indices of every
\* claimed window that is not its owner's current window and the first
\* offset[pid] indices of every current window (so every issued index lies
\* in a window); pads_used is w times the number of claimed windows minus
\* the unconsumed rest of the current windows; and pads_used equals the
\* capacity whenever party_can_send is false for every party.
C20_NoAbandonedWindow ==
    LET claimed == {b \in WindowIds : claimed_by[b] # Unclaimed}
        holding == {pid \in Parties : cur_window[pid] # None}
        IssuedOf(b) ==
            IF cur_window[claimed_by[b]] = b
            THEN windows[b].start ..
                     (windows[b].start + offset[claimed_by[b]] - 1)
            ELSE windows[b].start .. windows[b].end
        RECURSIVE Rest(_)
        Rest(S) == IF S = {} THEN 0
                   ELSE LET pid == CHOOSE x \in S : TRUE
                        IN  (w - offset[pid]) + Rest(S \ {pid})
    IN
    /\ \A pid \in holding : 0 < offset[pid] /\ offset[pid] < w
    /\ used_pads = UNION {IssuedOf(b) : b \in claimed}
    /\ \A i \in used_pads : WindowsAt(i) # {}
    /\ pads_used = (w * Cardinality(claimed)) - Rest(holding)
    /\ (\A pid \in Parties : ~party_can_send(pid))
          => pads_used = protocol_capacity_in_messages

\* one party is part way through a window, another window has been
\* consumed completely, and the index space has a tail outside the windows
C20_Witness ==
    /\ \E pid \in Parties : cur_window[pid] # None /\ offset[pid] = 1
    /\ \E b \in WindowIds :
          /\ claimed_by[b] # Unclaimed
          /\ cur_window[claimed_by[b]] # b
    /\ n % stride # 0

\* ---- C16 ----
\* C16: lazy and eager reclaim pointer are observationally equivalent.  Run
\* on the same sequence of send and party_can_send calls, the allocator and
\* the one that normalizes next_unclaimed after every call have returned
\* the same result to the last call (the same pad_index, the same NoCapacity
\* failure, the same answer) and have the same claim table, in every
\* reachable state.
C16_LazyEqualsEager ==
    /\ eager.out = h_last
    /\ eager.claimed_by = claimed_by

\* the two pointers differ, and a send has just reclaimed a window of index
\* 2 or more outside its sender's residue class
C16_Witness ==
    /\ eager.next_unclaimed # next_unclaimed
    /\ h_last.op = "send" /\ h_last.result = "ok"
    /\ \E b \in WindowIds :
          /\ b >= 2
          /\ h_last.pad = windows[b].start
          /\ b % m # h_last.pid

\* ---- C17 ----
\* C17: atomicity of claiming is required.  When every send runs under one
\* lock (locking), no reachable state has a window held by two parties, a
\* party holding a window the claim table gives to another, or a pad_index
\* issued twice.  Without the lock, with the steps of two parties'
\* _claim_window interleaved, such a state is reachable (C17_Witness).
C17_LockedNoDoubleClaim ==
    locking =>
        /\ \A p, q \in Parties :
              (p # q /\ cur_window[p] # None) => cur_window[p] # cur_window[q]
        /\ \A p \in Parties :
              cur_window[p] # None => claimed_by[cur_window[p]] = p
        /\ h_last.result # "UniquenessViolation"

\* without the lock two parties have claimed the same window and the send
\* of the second has found its pad_index already issued
C17_Witness ==
    /\ ~locking
    /\ h_last.op = "send" /\ h_last.result = "UniquenessViolation"
    /\ \E q \in Parties :
          /\ q # h_last.pid
          /\ h_last_pad[q] = h_last.pad
          /\ cur_window[h_last.pid] # None
          /\ claimed_by[cur_window[h_last.pid]] = h_last.pid

\* ---- C18 ----
\* C18: no window is stranded while a party still wants capacity.  In every
\* run in which party h_keeper keeps calling send, whatever the others do:
\* the successful sends number at most capacity() and once they number
\* capacity() every window is claimed; eventually every window is claimed
\* (also those of parties that never send) and from then on h_keeper cannot
\* send; once a send of h_keeper has failed, all its later sends fail with
\* NoCapacity; and when h_keeper has sent alone until NoCapacity,
\* pads_used() is capacity().
C18_NoStrandedWindow ==
    /\ [](/\ TotalSent(Parties) <= protocol_capacity_in_messages
          /\ TotalSent(Parties) = protocol_capacity_in_messages => AllClaimed)
    /\ <>[](AllClaimed /\ h_failed[h_keeper] /\ ~party_can_send(h_keeper))
    /\ [][ ( /\ h_failed[h_keeper]
             /\ h_last'.op = "send" /\ h_last'.pid = h_keeper )
              => h_last'.result = "NoCapacity" ]_vars
    /\ []( ( /\ h_failed[h_keeper]
             /\ \A q \in Parties \ {h_keeper} : h_sent[q] = 0 /\ ~h_failed[q] )
           => pads_used = protocol_capacity_in_messages )

\* the party that keeps sending has sent alone until NoCapacity and has
\* taken every window, those of the other residue classes included
C18_Witness ==
    /\ num_windows >= 3
    /\ h_failed[h_keeper]
    /\ h_last.op = "send" /\ h_last.result = "NoCapacity"
    /\ \A b \in WindowIds : claimed_by[b] = h_keeper
    /\ \A q \in Parties \ {h_keeper} : h_sent[q] = 0
    /\ pads_used = protocol_capacity_in_messages

====
